---- MODULE Spec2Model ----
(***************************************************************************)
(* Model of the connection-limited TCP number server (src/main.go).        *)
(*                                                                         *)
(* Goroutines: main (dispatch / signal select loop), the accept loop       *)
(* started by acceptConns, one handleConnection per dispatched connection, *)
(* and the two interval reporters started on the Counter.  The Counter     *)
(* type itself is not part of src/: its operations are modelled from the   *)
(* specification (section 4.1) and are marked as such below.               *)
(***************************************************************************)
EXTENDS Integers, Sequences, FiniteSets, TLC

VARIABLES
    proc,           \* "running" | "exited" (os.Exit(0)) | "fatal" (log.Fatalf)
    mainPc,         \* main's position: "select" | "exit" (between Close and os.Exit)
    closed,         \* the Counter's shutdown flag
    sem,            \* number of values buffered in counter.Sem
    pending,        \* connection the accept loop is blocked sending on conns, or 0
    conn,           \* accepted connections, in accept order
    totalValid,     \* Counter: lifetime count
    intervalValid,  \* Counter: count since the last output-interval reset
    uniq,           \* Counter: the dedup set
    uniqLog,        \* Counter: the unique-values log, in append order
    deltas,         \* what the output reporter has printed
    logged,         \* what the log reporter has printed
    outPc,          \* output reporter: "ticking" | "stopped"
    logPc           \* log reporter: "ticking" | "stopped"

vars == <<proc, mainPc, closed, sem, pending, conn, totalValid, intervalValid,
          uniq, uniqLog, deltas, logged, outPc, logPc>>

counterVars == <<totalValid, intervalValid, uniq, uniqLog>>
reporterVars == <<deltas, logged, outPc, logPc>>

(***************************************************************************)
(* Program constants (src/main.go:16-23).                                  *)
(***************************************************************************)
connLimit == 6
validLen == 10
minValue == 1000000

(***************************************************************************)
(* Bounds of the model.                                                    *)
(***************************************************************************)
MaxConns == 2       \* connections accepted under Spec and SpecLife
GateConns == 7      \* connections accepted under SpecGate
MaxTicks == 2       \* periodic ticks of the output reporter
MaxLogTicks == 1    \* periodic ticks of the log reporter

(***************************************************************************)
(* Bytes, lines and numbers.  A line is a sequence of one-character        *)
(* strings; text written to a connection is a string.                      *)
(***************************************************************************)
DigitChar == <<"0", "1", "2", "3", "4", "5", "6", "7", "8", "9">>

IsDigit(ch) == \E d \in 1..10 : DigitChar[d] = ch

DigitVal(ch) == (CHOOSE d \in 1..10 : DigitChar[d] = ch) - 1

\* fmt's %d verb for a non-negative int.
RECURSIVE Itoa(_)
Itoa(n) == IF n < 10 THEN DigitChar[n + 1]
           ELSE Itoa(n \div 10) \o DigitChar[(n % 10) + 1]

\* The value of a sequence of digits, most significant first.
RECURSIVE DigitsValue(_)
DigitsValue(ds) == IF ds = <<>> THEN 0
                   ELSE 10 * DigitsValue(SubSeq(ds, 1, Len(ds) - 1))
                        + DigitVal(ds[Len(ds)])

\* strconv.Atoi: an optional sign, then one or more decimal digits and
\* nothing else.  Any other byte (a newline included) is a syntax error.
Atoi(s) ==
    LET signed == s # <<>> /\ s[1] \in {"+", "-"}
        ds == IF signed THEN SubSeq(s, 2, Len(s)) ELSE s
        ok == ds # <<>> /\ \A i \in 1..Len(ds) : IsDigit(ds[i])
    IN  IF ~ok THEN [ok |-> FALSE, n |-> 0]
        ELSE [ok |-> TRUE,
              n |-> IF signed /\ s[1] = "-" THEN 0 - DigitsValue(ds)
                    ELSE DigitsValue(ds)]

\* A client's byte stream: the bytes it sends, and what the reader meets
\* once they are used up: "EOF" (the client closed) or "reset" (a read
\* error other than end-of-stream).
Stream(data, end) == [data |-> data, end |-> end]

\* bufio.Reader.ReadString('\n'): the bytes up to and including the first
\* newline with a nil error; without a newline, all the bytes and the
\* error that ended the stream.
ReadString(in) ==
    LET nl == {i \in 1..Len(in.data) : in.data[i] = "\n"}
    IN  IF nl # {}
        THEN [s |-> SubSeq(in.data, 1, CHOOSE i \in nl : \A j \in nl : i <= j),
              err |-> "nil"]
        ELSE [s |-> in.data, err |-> in.end]

(***************************************************************************)
(* Text written to a connection (src/main.go:80, 117, 123, 128, 138).      *)
(***************************************************************************)
BusyMsg == "Server busy."

LenErr(got) == "ERR Malformed Request: expected length " \o Itoa(validLen)
               \o ", got " \o Itoa(got) \o ".\n"

NumErr == "ERR Malformed Request: expected number\n"

RangeErr == "ERR Malformed Request: expected number greater than "
            \o Itoa(minValue) \o "\n"

\* fmt.Fprintf(conn, "%d\n", num)
EchoMutNoNewline(num) == Itoa(num)

Echo(num) == Itoa(num) \o "\n"

(***************************************************************************)
(* The client streams the model draws from.                                *)
(***************************************************************************)
InDigits9NL == Stream(<<"1","2","3","4","5","6","7","8","9","\n">>, "EOF")
In1234567890NL == Stream(<<"1","2","3","4","5","6","7","8","9","0","\n">>, "EOF")
In0000000001NL == Stream(<<"0","0","0","0","0","0","0","0","0","1","\n">>, "EOF")
In123NL == Stream(<<"1","2","3","\n">>, "EOF")
InTwoLines == Stream(<<"1","2","\n","3","4","5","6","7","8","9","\n">>, "EOF")
In1234567890EOF == Stream(<<"1","2","3","4","5","6","7","8","9","0">>, "EOF")
In0000000001EOF == Stream(<<"0","0","0","0","0","0","0","0","0","1">>, "EOF")
InMinValueEOF == Stream(<<"0","0","0","1","0","0","0","0","0","0">>, "EOF")
InPlusEOF == Stream(<<"+","1","2","3","4","5","6","7","8","9">>, "EOF")
InEmptyEOF == Stream(<<>>, "EOF")
In123Reset == Stream(<<"1","2","3">>, "reset")

Inputs == {InDigits9NL, In1234567890NL, In0000000001NL, In123NL, InTwoLines,
           In1234567890EOF, In0000000001EOF, InMinValueEOF, InPlusEOF,
           InEmptyEOF, In123Reset}

GateInputs == {In123NL}

LifeInputs == {In1234567890EOF, InEmptyEOF}

Unread == Stream(<<>>, "unread")

(***************************************************************************)
(* Connections.                                                            *)
(*   pc: "pending"  token held, waiting on the conns channel               *)
(*       "busy"     rejected by the accept loop                            *)
(*       "reading"  handler blocked in ReadString                          *)
(*       "inc" | "echo" | "has" | "rec"   handler before counter.Inc, the  *)
(*                  echo write, HasValue, RecordUniq                       *)
(*       "cleanup"  handler returned, deferred function not yet run        *)
(*       "release"  deferred function after conn.Close(), before the       *)
(*                  receive from counter.Sem                               *)
(*       "done"     handler finished                                       *)
(*       "fatal"    handler called log.Fatalf                              *)
(***************************************************************************)
NewConn(pc, resp, isClosed) ==
    [pc |-> pc, input |-> Unread, num |-> 0, resp |-> resp,
     closed |-> isClosed, released |-> 0, parsed |-> FALSE]

Conns == 1..Len(conn)

Init ==
    /\ proc = "running"
    /\ mainPc = "select"
    /\ closed = FALSE
    /\ sem = 0
    /\ pending = 0
    /\ conn = <<>>
    /\ totalValid = 0
    /\ intervalValid = 0
    /\ uniq = {}
    /\ uniqLog = <<>>
    /\ deltas = <<>>
    /\ logged = <<>>
    /\ outPc = "ticking"
    /\ logPc = "ticking"

(***************************************************************************)
(* Counter (spec section 4.1; the type is not under src/).                 *)
(***************************************************************************)
\* NewCounter(connLimit): the capacity of the Sem channel.
SemCap == connLimit

\* counter.Inc(): both counters go up by one, as one step.
Inc ==
    /\ totalValid' = totalValid + 1
    /\ intervalValid' = intervalValid + 1

\* counter.HasValue(num)
HasValue(num) == num \in uniq

\* counter.RecordUniq(num) without error: checks membership and inserts
\* if absent, as one step; a value already present changes nothing.
RecordUniqMutBlind(num) ==
    /\ uniq' = uniq \cup {num}
    /\ uniqLog' = Append(uniqLog, num)

RecordUniq(num) ==
    IF num \in uniq
    THEN UNCHANGED <<uniq, uniqLog>>
    ELSE /\ uniq' = uniq \cup {num}
         /\ uniqLog' = Append(uniqLog, num)

(***************************************************************************)
(* acceptConns (src/main.go:65-87).                                        *)
(***************************************************************************)
\* `case counter.Sem <- 1` can proceed: the channel's buffer is not full.
SemCanSendMutOffByOne == sem <= SemCap

SemCanSend == sem < SemCap

\* The default branch: the busy message is written and the connection closed.
RejectedMutNoClose == NewConn("busy", <<BusyMsg>>, FALSE)

Rejected == NewConn("busy", <<BusyMsg>>, TRUE)

\* srv.Accept() returns a connection and the select either takes a token
\* and blocks sending the connection to main, or rejects it.
AcceptConn(limit) ==
    /\ proc = "running"
    /\ pending = 0
    /\ Len(conn) < limit
    /\ IF SemCanSend
       THEN /\ sem' = sem + 1
            /\ conn' = Append(conn, NewConn("pending", <<>>, FALSE))
            /\ pending' = Len(conn) + 1
       ELSE /\ conn' = Append(conn, Rejected)
            /\ UNCHANGED <<sem, pending>>
    /\ UNCHANGED <<proc, mainPc, closed, counterVars, reporterVars>>

(***************************************************************************)
(* main's select loop (src/main.go:50-60).                                 *)
(***************************************************************************)
\* case conn := <-conns: go handleConnection(conn, counter)
MainDispatchMutDropsConn ==
    /\ proc = "running"
    /\ mainPc = "select"
    /\ pending # 0
    /\ pending' = 0
    /\ UNCHANGED <<proc, mainPc, closed, sem, conn, counterVars, reporterVars>>

MainDispatch ==
    /\ proc = "running"
    /\ mainPc = "select"
    /\ pending # 0
    /\ conn' = [conn EXCEPT ![pending].pc = "reading"]
    /\ pending' = 0
    /\ UNCHANGED <<proc, mainPc, closed, sem, counterVars, reporterVars>>

\* case <-sig: counter.Close()
MainSignal ==
    /\ proc = "running"
    /\ mainPc = "select"
    /\ closed' = TRUE
    /\ mainPc' = "exit"
    /\ UNCHANGED <<proc, sem, pending, conn, counterVars, reporterVars>>

\* os.Exit(0)
MainExit ==
    /\ proc = "running"
    /\ mainPc = "exit"
    /\ proc' = "exited"
    /\ UNCHANGED <<mainPc, closed, sem, pending, conn, counterVars, reporterVars>>

(***************************************************************************)
(* handleConnection (src/main.go:92-150).                                  *)
(***************************************************************************)
\* if len(s) != validLen: the length of the raw line, terminator included.
LenOkMutTrimmed(s) ==
    Len(SelectSeq(s, LAMBDA ch : ch # "\n")) = validLen

LenOk(s) == Len(s) = validLen

\* if num < minValue
BelowMinMutInverted(num) == num > minValue

BelowMin(num) == num < minValue

\* The checks with the parse moved before the length check.
ValidateMutParseFirst(s) ==
    LET a == Atoi(s)
    IN  IF ~a.ok
        THEN [pc |-> "cleanup", resp |-> <<NumErr>>, num |-> 0, parsed |-> TRUE]
        ELSE IF ~LenOk(s)
             THEN [pc |-> "cleanup", resp |-> <<LenErr(Len(s))>>, num |-> 0,
                   parsed |-> TRUE]
             ELSE IF BelowMin(a.n)
                  THEN [pc |-> "cleanup", resp |-> <<RangeErr>>, num |-> a.n,
                        parsed |-> TRUE]
                  ELSE [pc |-> "inc", resp |-> <<>>, num |-> a.n,
                        parsed |-> TRUE]

\* Lines 115-130: the three checks, in order, on the line that was read.
\* The result is what the handler does next with the text it has written.
Validate(s) ==
    IF ~LenOk(s)
    THEN [pc |-> "cleanup", resp |-> <<LenErr(Len(s))>>, num |-> 0,
          parsed |-> FALSE]
    ELSE LET a == Atoi(s)
         IN  IF ~a.ok
             THEN [pc |-> "cleanup", resp |-> <<NumErr>>, num |-> 0,
                   parsed |-> TRUE]
             ELSE IF BelowMin(a.n)
                  THEN [pc |-> "cleanup", resp |-> <<RangeErr>>, num |-> a.n,
                        parsed |-> TRUE]
                  ELSE [pc |-> "inc", resp |-> <<>>, num |-> a.n,
                        parsed |-> TRUE]

\* if err != nil && err != io.EOF
ReadFatalMutAnyErr(err) == err # "nil"

ReadFatal(err) == err # "nil" /\ err # "EOF"

\* Lines 106-130: the read returns; a read error other than io.EOF is
\* fatal (log.Fatalf exits the process, deferred functions do not run),
\* otherwise the line is validated.
HandleRead(c, inputs) ==
    /\ proc = "running"
    /\ conn[c].pc = "reading"
    /\ \E in \in inputs :
          LET r == ReadString(in)
              v == Validate(r.s)
          IN  IF ReadFatal(r.err)
              THEN /\ proc' = "fatal"
                   /\ conn' = [conn EXCEPT ![c].input = in, ![c].pc = "fatal"]
              ELSE /\ conn' = [conn EXCEPT ![c].input = in,
                                           ![c].pc = v.pc,
                                           ![c].num = v.num,
                                           ![c].parsed = v.parsed,
                                           ![c].resp = @ \o v.resp]
                   /\ UNCHANGED proc
    /\ UNCHANGED <<mainPc, closed, sem, pending, counterVars, reporterVars>>

\* Line 135: counter.Inc().  The echo is a later statement: any other
\* goroutine can run between the two.
HandleIncMutNoCount(c) ==
    /\ proc = "running"
    /\ conn[c].pc = "inc"
    /\ conn' = [conn EXCEPT ![c].pc = "echo"]
    /\ UNCHANGED <<proc, mainPc, closed, sem, pending, counterVars, reporterVars>>

HandleInc(c) ==
    /\ proc = "running"
    /\ conn[c].pc = "inc"
    /\ Inc
    /\ conn' = [conn EXCEPT ![c].pc = "echo"]
    /\ UNCHANGED <<proc, mainPc, closed, sem, pending, uniq, uniqLog, reporterVars>>

\* Line 138: fmt.Fprintf(conn, "%d\n", num)
HandleEcho(c) ==
    /\ proc = "running"
    /\ conn[c].pc = "echo"
    /\ conn' = [conn EXCEPT ![c].pc = "has",
                            ![c].resp = Append(@, Echo(conn[c].num))]
    /\ UNCHANGED <<proc, mainPc, closed, sem, pending, counterVars, reporterVars>>

\* Lines 141-143: if counter.HasValue(num) { return }
HandleHasValue(c) ==
    /\ proc = "running"
    /\ conn[c].pc = "has"
    /\ conn' = [conn EXCEPT
                  ![c].pc = IF HasValue(conn[c].num) THEN "cleanup" ELSE "rec"]
    /\ UNCHANGED <<proc, mainPc, closed, sem, pending, counterVars, reporterVars>>

\* Line 147: counter.RecordUniq(num) returns nil.
HandleRecordUniq(c) ==
    /\ proc = "running"
    /\ conn[c].pc = "rec"
    /\ RecordUniq(conn[c].num)
    /\ conn' = [conn EXCEPT ![c].pc = "cleanup"]
    /\ UNCHANGED <<proc, mainPc, closed, sem, pending, totalValid, intervalValid,
                   reporterVars>>

\* Lines 147-149: counter.RecordUniq(num) returns an error: log.Fatalf.
HandleRecordUniqFail(c) ==
    /\ proc = "running"
    /\ conn[c].pc = "rec"
    /\ proc' = "fatal"
    /\ conn' = [conn EXCEPT ![c].pc = "fatal"]
    /\ UNCHANGED <<mainPc, closed, sem, pending, counterVars, reporterVars>>

\* Line 99, first statement of the deferred function: conn.Close().  The
\* token is still out when the connection is closed.
HandleClose(c) ==
    /\ proc = "running"
    /\ conn[c].pc = "cleanup"
    /\ conn' = [conn EXCEPT ![c].pc = "release", ![c].closed = TRUE]
    /\ UNCHANGED <<proc, mainPc, closed, sem, pending, counterVars, reporterVars>>

\* The end of the deferred function without the receive from counter.Sem.
HandleReleaseMutNoReceive(c) ==
    /\ proc = "running"
    /\ conn[c].pc = "release"
    /\ conn' = [conn EXCEPT ![c].pc = "done"]
    /\ UNCHANGED <<proc, mainPc, closed, sem, pending, counterVars, reporterVars>>

\* Line 103, second statement of the deferred function: <-counter.Sem.
HandleRelease(c) ==
    /\ proc = "running"
    /\ conn[c].pc = "release"
    /\ sem > 0
    /\ sem' = sem - 1
    /\ conn' = [conn EXCEPT ![c].pc = "done", ![c].released = @ + 1]
    /\ UNCHANGED <<proc, mainPc, closed, pending, counterVars, reporterVars>>

(***************************************************************************)
(* Interval reporters (spec section 4.4; RunOutputInterval and             *)
(* RunLogInterval are started at src/main.go:44-45, their bodies are not   *)
(* under src/).                                                            *)
(***************************************************************************)
\* SnapshotAndResetInterval, and the print of the delta it returned.
SnapshotAndResetIntervalMutNoReset ==
    /\ deltas' = Append(deltas, intervalValid)
    /\ UNCHANGED intervalValid

SnapshotAndResetInterval ==
    /\ deltas' = Append(deltas, intervalValid)
    /\ intervalValid' = 0

\* A tick of the output interval.
OutputTick ==
    /\ proc = "running"
    /\ outPc = "ticking"
    /\ Len(deltas) < MaxTicks
    /\ SnapshotAndResetInterval
    /\ UNCHANGED <<proc, mainPc, closed, sem, pending, conn, totalValid, uniq,
                   uniqLog, logged, outPc, logPc>>

\* The output reporter sees the flag closed: one final emission, then stop.
OutputFinal ==
    /\ proc = "running"
    /\ outPc = "ticking"
    /\ closed
    /\ SnapshotAndResetInterval
    /\ outPc' = "stopped"
    /\ UNCHANGED <<proc, mainPc, closed, sem, pending, conn, totalValid, uniq,
                   uniqLog, logged, logPc>>

\* A tick of the log interval: Total() is printed, nothing is reset.
LogTick ==
    /\ proc = "running"
    /\ logPc = "ticking"
    /\ Len(logged) < MaxLogTicks
    /\ logged' = Append(logged, totalValid)
    /\ UNCHANGED <<proc, mainPc, closed, sem, pending, conn, counterVars, deltas,
                   outPc, logPc>>

\* The log reporter sees the flag closed: one final emission, then stop.
LogFinal ==
    /\ proc = "running"
    /\ logPc = "ticking"
    /\ closed
    /\ logged' = Append(logged, totalValid)
    /\ logPc' = "stopped"
    /\ UNCHANGED <<proc, mainPc, closed, sem, pending, conn, counterVars, deltas,
                   outPc>>

(***************************************************************************)
(* Specifications.                                                         *)
(***************************************************************************)
\* Accept loop, dispatch, handlers on every input, and the output ticks.
Next ==
    \/ AcceptConn(MaxConns)
    \/ MainDispatch
    \/ \E c \in Conns : HandleRead(c, Inputs)
    \/ \E c \in Conns : HandleInc(c)
    \/ \E c \in Conns : HandleEcho(c)
    \/ \E c \in Conns : HandleHasValue(c)
    \/ \E c \in Conns : HandleRecordUniq(c)
    \/ \E c \in Conns : HandleRecordUniqFail(c)
    \/ \E c \in Conns : HandleClose(c)
    \/ \E c \in Conns : HandleRelease(c)
    \/ OutputTick

Spec == Init /\ [][Next]_vars

\* The admission gate under load: more connections than tokens, each sending
\* a short line.
NextGate ==
    \/ AcceptConn(GateConns)
    \/ MainDispatch
    \/ \E c \in Conns : HandleRead(c, GateInputs)
    \/ \E c \in Conns : HandleClose(c)
    \/ \E c \in Conns : HandleRelease(c)

SpecGate == Init /\ [][NextGate]_vars

\* The whole program with the shutdown signal and both reporters.
NextLife ==
    \/ AcceptConn(MaxConns)
    \/ MainDispatch
    \/ MainSignal
    \/ MainExit
    \/ \E c \in Conns : HandleRead(c, LifeInputs)
    \/ \E c \in Conns : HandleInc(c)
    \/ \E c \in Conns : HandleEcho(c)
    \/ \E c \in Conns : HandleHasValue(c)
    \/ \E c \in Conns : HandleRecordUniq(c)
    \/ \E c \in Conns : HandleRecordUniqFail(c)
    \/ \E c \in Conns : HandleClose(c)
    \/ \E c \in Conns : HandleRelease(c)
    \/ OutputTick
    \/ OutputFinal
    \/ LogTick
    \/ LogFinal

SpecLife == Init /\ [][NextLife]_vars

\* The gate under load with a fair scheduler, no shutdown and no fatal
\* fault: main and every handler that can take a step eventually do.  When
\* a client sends its line is up to the client, so the read has no
\* fairness.  The first connection draws from a valid and a short line,
\* the next ones send the short line, and the clients from the connLimit-th
\* on stay connected without ever sending.
FairInputs(c) == IF c = 1 THEN {In1234567890EOF, In123NL}
                 ELSE IF c < connLimit THEN GateInputs ELSE {}

NextFair ==
    \/ AcceptConn(GateConns)
    \/ MainDispatch
    \/ \E c \in Conns : HandleRead(c, FairInputs(c))
    \/ \E c \in Conns : HandleInc(c)
    \/ \E c \in Conns : HandleEcho(c)
    \/ \E c \in Conns : HandleHasValue(c)
    \/ \E c \in Conns : HandleRecordUniq(c)
    \/ \E c \in Conns : HandleClose(c)
    \/ \E c \in Conns : HandleRelease(c)

\* A step of connection c's handler past its read; at most one of the six
\* is enabled at a time.
HandlerStep(c) ==
    /\ c \in Conns
    /\ \/ HandleInc(c)
       \/ HandleEcho(c)
       \/ HandleHasValue(c)
       \/ HandleRecordUniq(c)
       \/ HandleClose(c)
       \/ HandleRelease(c)

Fairness ==
    /\ WF_vars(MainDispatch)
    /\ \A c \in 1..GateConns : WF_vars(HandlerStep(c))

SpecFair == Init /\ [][NextFair]_vars /\ Fairness

(***************************************************************************)
(* Properties.                                                             *)
(***************************************************************************)
Handling == {"reading", "inc", "echo", "has", "rec", "cleanup", "release"}

UnderHandling == {c \in Conns : conn[c].pc \in Handling}

Outstanding == {c \in Conns : conn[c].pc \in Handling \cup {"pending"}}

\* The length of the first line of a stream, its newline counted.
RawLineLen(in) ==
    IF \E i \in 1..Len(in.data) : in.data[i] = "\n"
    THEN CHOOSE i \in 1..Len(in.data) :
            /\ in.data[i] = "\n"
            /\ \A j \in 1..(i - 1) : in.data[j] # "\n"
    ELSE Len(in.data)

RECURSIVE SumSeq(_)
SumSeq(s) == IF s = <<>> THEN 0 ELSE s[1] + SumSeq(Tail(s))

Occurrences(s, v) == Cardinality({i \in 1..Len(s) : s[i] = v})

\* C1: at most connLimit tokens are outstanding and at most connLimit
\* connections are under handling, in every reachable state.
C1_GateBound ==
    /\ sem <= connLimit
    /\ Cardinality(Outstanding) <= connLimit
    /\ Cardinality(UnderHandling) <= connLimit

C1_Witness ==
    /\ sem = connLimit
    /\ Cardinality(UnderHandling) = connLimit
    /\ Len(conn) > connLimit

\* C2: a connection accepted while all connLimit tokens are out gets the
\* busy message and is closed; it never reads, never takes and never
\* releases a token and changes no counter; a connection is rejected only
\* then, and the admitted ones get their own response and release once; of
\* connLimit + 1 connections opened before any completes, exactly the last
\* is rejected.
C2_RejectedState ==
    /\ \A c \in Conns :
          conn[c].pc = "busy" =>
             /\ conn[c].resp = <<"Server busy.">>
             /\ conn[c].closed
             /\ conn[c].released = 0
             /\ conn[c].input = Unread
             /\ ~conn[c].parsed
    /\ \A c \in Conns :
          conn[c].pc = "done" =>
             /\ conn[c].resp = <<"ERR Malformed Request: expected length 10, got 4.\n">>
             /\ conn[c].closed
             /\ conn[c].released = 1
    /\ (/\ Len(conn) > connLimit
        /\ \A c \in 1..connLimit : conn[c].released = 0)
       => /\ conn[connLimit + 1].pc = "busy"
          /\ \A c \in 1..connLimit : conn[c].pc \in Handling \cup {"pending"}

C2_RejectStep ==
    /\ \A c \in Conns : conn[c].pc = "busy" => conn'[c] = conn[c]
    /\ Len(conn') > Len(conn) =>
          /\ (conn'[Len(conn')].pc = "busy") <=> (sem = connLimit)
          /\ conn'[Len(conn')].pc = "busy" =>
                UNCHANGED <<sem, pending, totalValid, intervalValid, uniq, uniqLog>>

\* C2: the rejected connection's state, and the step that rejects it.
C2_BusyRejected == [](C2_RejectedState) /\ [][C2_RejectStep]_vars

C2_Witness ==
    /\ Len(conn) = connLimit + 1
    /\ conn[connLimit + 1].pc = "busy"
    /\ \A c \in 1..connLimit : conn[c].released = 0 /\ conn[c].pc = "cleanup"

\* C3 (as claimed): every connection that took a token and whose handling
\* has ended, by a return or by a failed read, has released its token
\* exactly once and is closed.
ReadFailed(c) ==
    /\ conn[c].pc = "fatal"
    /\ conn[c].input # Unread
    /\ ReadString(conn[c].input).err \notin {"nil", "EOF"}

\* C3 (as claimed): released exactly once and closed on every exit path,
\* the failed read included.
C3_ReleasedOnEveryExit ==
    \A c \in Conns :
       (conn[c].pc = "done" \/ ReadFailed(c)) =>
          conn[c].released = 1 /\ conn[c].closed

\* C4 (as claimed): a request of nine digits and a newline whose value is
\* at least minValue is counted and echoed.
WellFormedRequest(in) ==
    /\ Len(in.data) = 10
    /\ in.data[10] = "\n"
    /\ \A i \in 1..9 : IsDigit(in.data[i])
    /\ DigitsValue(SubSeq(in.data, 1, 9)) >= 1000000

\* C4 (as claimed): every well-formed request is echoed and counted.
C4_WellFormedCounted ==
    \A c \in Conns :
       (conn[c].pc = "done" /\ WellFormedRequest(conn[c].input)) =>
          /\ conn[c].resp = <<Itoa(DigitsValue(SubSeq(conn[c].input.data, 1, 9))) \o "\n">>
          /\ totalValid >= 1

\* C5: a line whose raw length, newline counted, is not 10 gets the length
\* error naming 10 and the actual length, is never parsed, and changes no
\* counter and not the dedup set.
C5_LengthState ==
    \A c \in Conns :
       (/\ conn[c].input # Unread
        /\ conn[c].pc # "fatal"
        /\ RawLineLen(conn[c].input) # 10) =>
          /\ conn[c].resp = <<"ERR Malformed Request: expected length 10, got "
                               \o Itoa(RawLineLen(conn[c].input)) \o ".\n">>
          /\ conn[c].input = In123NL =>
                conn[c].resp = <<"ERR Malformed Request: expected length 10, got 4.\n">>
          /\ ~conn[c].parsed
          /\ conn[c].pc \in {"cleanup", "release", "done"}

C5_LengthStep ==
    \A c \in Conns :
       (/\ conn[c].pc = "reading"
        /\ conn'[c].pc \notin {"reading", "fatal"}
        /\ RawLineLen(conn'[c].input) # 10) =>
          UNCHANGED <<totalValid, intervalValid, uniq, uniqLog>>

\* C5: the length error in every state, and no counter change on the step.
C5_LengthMismatch == [](C5_LengthState) /\ [][C5_LengthStep]_vars

C5_Witness ==
    \E c, d \in Conns :
       /\ conn[c].pc = "done" /\ conn[c].input = In123NL
       /\ conn[d].pc = "done" /\ conn[d].input = In1234567890NL
       /\ totalValid = 0

\* C6 (as claimed): the line "1234567890\n" is echoed and its value
\* recorded as unique.
C6_EchoedAsSent ==
    \A c \in Conns :
       (conn[c].pc = "done" /\ conn[c].input = In1234567890NL) =>
          /\ conn[c].resp = <<"1234567890\n">>
          /\ 1234567890 \in uniq

\* C6 (amended): "1234567890\n" is 11 bytes and gets the length error with
\* actual length 11, recording nothing, every time it is sent.  The ten
\* bytes "1234567890" followed by end-of-stream are echoed as
\* "1234567890\n" on every send and recorded as unique once.
C6_State ==
    /\ \A c \in Conns :
          conn[c].input = In1234567890NL =>
             /\ conn[c].resp = <<"ERR Malformed Request: expected length 10, got 11.\n">>
             /\ conn[c].pc \in {"cleanup", "release", "done"}
    /\ \A c \in Conns :
          conn[c].input = In1234567890EOF =>
             /\ conn[c].pc \in {"has", "rec", "cleanup", "release", "done"} =>
                   conn[c].resp = <<"1234567890\n">>
             /\ conn[c].pc \in {"cleanup", "release", "done"} =>
                   Occurrences(uniqLog, 1234567890) = 1 /\ 1234567890 \in uniq
    /\ Occurrences(uniqLog, 1234567890) <= 1

C6_Step ==
    \A c \in Conns :
       (conn[c].pc = "reading" /\ conn'[c].input = In1234567890NL) =>
          UNCHANGED <<totalValid, intervalValid, uniq, uniqLog>>

\* C6 (amended): the responses in every state, and no record on the step
\* that reads the 11-byte line.
C6_ElevenBytesRejected == [](C6_State) /\ [][C6_Step]_vars

C6_Witness ==
    \E c, d \in Conns :
       /\ conn[c].pc = "done" /\ conn[c].input = In1234567890NL
       /\ conn[d].pc = "done" /\ conn[d].input = In1234567890EOF
       /\ uniqLog = <<1234567890>>

\* C7 (as claimed): the line "0000000001\n" gets the range error.
C7_RangeErrorAsSent ==
    \A c \in Conns :
       (conn[c].pc = "done" /\ conn[c].input = In0000000001NL) =>
          conn[c].resp =
             <<"ERR Malformed Request: expected number greater than 1000000\n">>

\* C7 (amended): "0000000001\n" is 11 bytes and gets the length error with
\* actual length 11; the range error is the response to the ten bytes
\* "0000000001" followed by end-of-stream.  Neither makes a record.
C7_State ==
    /\ \A c \in Conns :
          conn[c].input = In0000000001NL =>
             conn[c].resp = <<"ERR Malformed Request: expected length 10, got 11.\n">>
    /\ \A c \in Conns :
          conn[c].input = In0000000001EOF =>
             /\ conn[c].resp =
                  <<"ERR Malformed Request: expected number greater than 1000000\n">>
             /\ conn[c].pc \in {"cleanup", "release", "done"}
    /\ 1 \notin uniq
    /\ Occurrences(uniqLog, 1) = 0

C7_Step ==
    \A c \in Conns :
       (/\ conn[c].pc = "reading"
        /\ conn'[c].input \in {In0000000001NL, In0000000001EOF}) =>
          UNCHANGED <<totalValid, intervalValid, uniq, uniqLog>>

\* C7 (amended): the responses in every state, and no record on the step.
C7_BelowMinimum == [](C7_State) /\ [][C7_Step]_vars

C7_Witness ==
    \E c, d \in Conns :
       /\ conn[c].pc = "done" /\ conn[c].input = In0000000001NL
       /\ conn[d].pc = "done" /\ conn[d].input = In0000000001EOF

\* C8: each distinct valid value is in the unique log exactly once when it
\* is in the dedup set and never otherwise, whatever the interleaving of
\* the handlers that submit it.
C8_UniqueOnce ==
    /\ \A v \in uniq : Occurrences(uniqLog, v) = 1
    /\ Len(uniqLog) = Cardinality(uniq)
    /\ \A c \in Conns : conn[c].pc = "done" /\ conn[c].num >= minValue =>
          conn[c].num \in uniq

\* Two handlers submitted the same value and both found it absent; one has
\* inserted it and the other is about to call RecordUniq.
C8_Witness ==
    \E c, d \in Conns :
       /\ c # d
       /\ conn[c].num = conn[d].num
       /\ conn[c].pc = "rec"
       /\ conn[d].pc \in {"cleanup", "release", "done"}
       /\ conn[c].num \in uniq

\* C9 (as claimed): with no handler between counting and recording,
\* totalValid is the number of values in the dedup set.
C9_TotalIsUniqueCount ==
    (\A c \in Conns : conn[c].pc \notin {"echo", "has", "rec"}) =>
       totalValid = Cardinality(uniq)

\* C9 (amended): totalValid never decreases and counts every valid record,
\* duplicates included; intervalValid counts no more than totalValid; the
\* number of values in the dedup set is at most totalValid.
\* The handlers that are past counter.Inc(): the echo is a later statement
\* and may not have been written yet, or ever.
Counted == {c \in Conns : /\ conn[c].pc \in {"echo", "has", "rec", "cleanup",
                                              "release", "done", "fatal"}
                          /\ conn[c].num >= minValue}

C9_State ==
    /\ totalValid = Cardinality(Counted)
    /\ Cardinality(uniq) <= totalValid
    /\ intervalValid <= totalValid

\* C9 (amended): totalValid counts every valid record and never decreases.
C9_TotalCountsValid == [](C9_State) /\ [][totalValid' >= totalValid]_vars

C9_Witness ==
    /\ \A c \in Conns : conn[c].pc = "done"
    /\ totalValid = 2
    /\ Cardinality(uniq) = 1

\* C10: the deltas printed so far and the current intervalValid add up to
\* totalValid: no valid record is lost or counted in two deltas.
C10_DeltasAddUp ==
    /\ SumSeq(deltas) + intervalValid = totalValid
    /\ \A i \in 1..Len(deltas) : deltas[i] >= 0

C10_Witness ==
    /\ deltas = <<1, 1>>
    /\ totalValid = 2
    /\ intervalValid = 0

\* C11: a snapshot-and-reset returns the number of valid records counted
\* since the previous reset and zeroes intervalValid, so a second call with
\* no valid record in between returns 0; neither call changes totalValid
\* or the dedup set.
C11_SnapshotThenZero ==
    [][Len(deltas') > Len(deltas) =>
          /\ Len(deltas') = Len(deltas) + 1
          /\ deltas'[Len(deltas')] = totalValid - SumSeq(deltas)
          /\ totalValid = SumSeq(deltas) => deltas'[Len(deltas')] = 0
          /\ intervalValid' = 0
          /\ UNCHANGED <<totalValid, uniq, uniqLog>>]_vars

\* One valid record, then two snapshots in succession.
C11_Witness ==
    /\ deltas = <<1, 0>>
    /\ totalValid = 1
    /\ Cardinality(uniq) = 1

\* C12 (as claimed): when the process has exited on a termination signal,
\* no connection handler is left unfinished: every dispatched connection
\* has released its token and is closed.
C12_ExitAfterHandlers ==
    proc = "exited" =>
       \A c \in Conns :
          conn[c].pc \notin {"pending", "busy"} =>
             /\ conn[c].pc = "done"
             /\ conn[c].released = 1
             /\ conn[c].closed

\* C13 (as claimed): when the process has exited on a termination signal,
\* each reporter has made its final emission and stopped.
C13_FinalEmissionBeforeExit ==
    proc = "exited" =>
       /\ outPc = "stopped"
       /\ logPc = "stopped"
       /\ deltas # <<>>
       /\ logged # <<>>

\* C14 (as claimed): nothing a client does on its connection halts the
\* process: when the process is in the fatal state, no handler got there
\* through the way its client's stream ended.
C14_ClientNeverFatal ==
    proc = "fatal" => \A c \in Conns : ~ReadFailed(c)

\* The streams that fail a check, with the one line each is answered with:
\* the length check comes first, then the parse, then the range check.
FailingInputs == {InDigits9NL, In1234567890NL, In0000000001NL, In123NL,
                  InTwoLines, In0000000001EOF, InEmptyEOF}

ExpectedError(in) ==
    CASE in = In123NL -> "ERR Malformed Request: expected length 10, got 4.\n"
      [] in = InTwoLines -> "ERR Malformed Request: expected length 10, got 3.\n"
      [] in = InEmptyEOF -> "ERR Malformed Request: expected length 10, got 0.\n"
      [] in = In1234567890NL -> "ERR Malformed Request: expected length 10, got 11.\n"
      [] in = In0000000001NL -> "ERR Malformed Request: expected length 10, got 11.\n"
      [] in = InDigits9NL -> "ERR Malformed Request: expected number\n"
      [] in = In0000000001EOF ->
            "ERR Malformed Request: expected number greater than 1000000\n"

C15_State ==
    \A c \in Conns :
       conn[c].input \in FailingInputs =>
          /\ conn[c].resp = <<ExpectedError(conn[c].input)>>
          /\ conn[c].pc \in {"cleanup", "release", "done"}
          /\ conn[c].parsed <=> conn[c].input \in {InDigits9NL, In0000000001EOF}

C15_Step ==
    /\ \A c \in Conns :
          (conn[c].pc = "reading" /\ conn'[c].input \in FailingInputs) =>
             UNCHANGED <<totalValid, intervalValid, uniq, uniqLog>>
    /\ (totalValid' # totalValid \/ intervalValid' > intervalValid) =>
          \E c \in Conns :
             /\ conn[c].pc = "inc"
             /\ conn'[c].pc = "echo"
             /\ conn[c].input \in {In1234567890EOF, InMinValueEOF, InPlusEOF}
             /\ conn[c].parsed
             /\ conn[c].resp = <<>>
             /\ totalValid' = totalValid + 1
             /\ intervalValid' = intervalValid + 1

\* C15: length, then parse, then range; the first failing check sends its
\* one error line and nothing else, the handler ends without touching the
\* counters or the dedup set, and the counters go up only for a line that
\* passed all three checks.
C15_ValidationOrder == [](C15_State) /\ [][C15_Step]_vars

C15_Witness ==
    \E c, d \in Conns :
       /\ conn[c].pc = "done" /\ conn[c].input = InDigits9NL
       /\ conn[d].pc = "done" /\ conn[d].input = In0000000001EOF
       /\ totalValid = 0

\* C16 (as claimed): once the shutdown flag is closed it stays closed, no
\* further token is granted and no connection is admitted or dispatched.
C16_NoAdmissionAfterClose ==
    [][closed =>
          /\ closed'
          /\ sem' <= sem
          /\ pending' \in {0, pending}
          /\ \A c \in 1..Len(conn') :
                conn'[c].pc \in {"pending", "reading"} =>
                   c \in Conns /\ conn[c].pc = conn'[c].pc]_vars

AwaitingDispatch == {c \in Conns : conn[c].pc = "pending"}

C17_State ==
    proc = "running" =>
       /\ sem = Cardinality(UnderHandling) + Cardinality(AwaitingDispatch)
       /\ Cardinality(AwaitingDispatch) <= 1
       /\ AwaitingDispatch = IF pending = 0 THEN {} ELSE {pending}

C17_Step == pending # 0 => Len(conn') = Len(conn)

\* C17: the tokens out are those of the running handlers plus that of the
\* one connection, if any, that the accept loop is blocked sending to
\* main; while it is blocked no other connection is accepted or rejected.
C17_TokensAccounted == [](C17_State) /\ [][C17_Step]_vars

C17_Witness ==
    /\ pending # 0
    /\ Cardinality(UnderHandling) = connLimit - 1
    /\ sem = connLimit

EOFInputs == {In1234567890EOF, In0000000001EOF, InMinValueEOF, InPlusEOF,
              InEmptyEOF}

C19_State ==
    /\ \A c \in Conns :
          conn[c].input = InEmptyEOF =>
             /\ conn[c].resp = <<"ERR Malformed Request: expected length 10, got 0.\n">>
             /\ ~conn[c].parsed
             /\ conn[c].pc \in {"cleanup", "release", "done"}
             /\ conn[c].pc = "done" => conn[c].released = 1 /\ conn[c].closed
    /\ \A c \in Conns :
          conn[c].input \in EOFInputs =>
             /\ conn[c].resp # <<>> \/ conn[c].pc \in {"inc", "echo"}
             /\ conn[c].input = In0000000001EOF =>
                   conn[c].resp =
                      <<"ERR Malformed Request: expected number greater than 1000000\n">>
             /\ conn[c].input = In1234567890EOF => conn[c].num = 1234567890
    /\ \A c \in Conns :
          (conn[c].pc = "fatal" /\ conn[c].resp = <<>>) =>
             conn[c].input = In123Reset

C19_Step ==
    \A c \in Conns :
       (conn[c].pc = "reading" /\ conn'[c].input \in EOFInputs) =>
          /\ proc' = "running"
          /\ conn'[c].input = InEmptyEOF =>
                UNCHANGED <<totalValid, intervalValid, uniq, uniqLog, sem>>

\* C19: end-of-stream ends the line like a newline does: what was received
\* is validated, an empty stream gets the length error with length 0,
\* changes no counter and releases its token, and the process goes on;
\* only a read error other than end-of-stream is fatal to the read.
C19_EOFEndsLine == [](C19_State) /\ [][C19_Step]_vars

C19_Witness ==
    /\ proc = "running"
    /\ sem = 0
    /\ \E c, d \in Conns :
          /\ conn[c].input = InEmptyEOF
          /\ conn[c].pc = "done"
          /\ conn[c].released = 1
          /\ conn[d].input = In1234567890EOF
          /\ conn[d].pc = "done"

Reading == {c \in Conns : conn[c].pc = "reading"}

C18_NotBlocked ==
    \A c \in Conns :
       conn[c].pc \in {"inc", "echo", "has", "rec", "cleanup", "release"} =>
          ENABLED (\/ HandleInc(c)
                   \/ HandleEcho(c)
                   \/ HandleHasValue(c)
                   \/ HandleRecordUniq(c)
                   \/ HandleClose(c)
                   \/ HandleRelease(c))

C18_SilentClientsStep ==
    (Cardinality(Reading) = connLimit /\ Len(conn') > Len(conn)) =>
       /\ conn'[Len(conn')].pc = "busy"
       /\ sem' = connLimit

\* Connection c is where only its client can move it on, or nowhere: it was
\* rejected, or its handler is blocked in the read, or its handler has
\* finished, the token released and the connection closed.
C18_Settled(c) ==
    \/ conn[c].pc \in {"busy", "reading"}
    \/ /\ conn[c].pc = "done"
       /\ conn[c].released = 1
       /\ conn[c].closed

\* From awaiting dispatch a connection gets to its handler's read, and from
\* any point past the read its handler gets to the end.
C18_Settles ==
    \A c \in 1..GateConns : (c \in Conns) ~> (c \in Conns /\ C18_Settled(c))

\* C18: with a fair scheduler and no shutdown or fatal fault, a connection
\* that took a token is eventually dispatched, and once its read has
\* returned its handler eventually finishes and releases the token; a
\* handler past its read is never blocked; connLimit handlers whose
\* clients stay silent hold every token, and each later connection is
\* rejected as busy.
C18_Progress ==
    /\ C18_Settles
    /\ [](C18_NotBlocked)
    /\ [][C18_SilentClientsStep]_vars

C18_Witness ==
    /\ Len(conn) = connLimit + 1
    /\ conn[connLimit + 1].pc = "busy"
    /\ \A c \in 2..connLimit : conn[c].pc = "reading"
    /\ conn[1].pc = "done" /\ conn[1].input = In1234567890EOF

====
